---- MODULE Spec2Model ----
(***************************************************************************)
(* Model of the sales analysis engine (sales_analysis.py), its CLI driver  *)
(* (main.py) and the dashboard's filter/metrics guard (dashboard.py).      *)
(*                                                                         *)
(* Money is kept in exact integer units, so sums and products are exact.   *)
(* A quotient (np.mean, np.median, the mean price of a group) is kept as   *)
(* the fraction [num, den]; the fraction 0/0 is NaN.  A standard deviation *)
(* is kept as its square (the variance), again as a fraction.              *)
(* sale_date is the ISO text 'YYYY-MM-DD' read as the number YYYYMMDD, so  *)
(* that the text order of SQL's ORDER BY is the numeric order.             *)
(***************************************************************************)
EXTENDS Integers, Sequences, FiniteSets, TLC

(* ---------------------------- bounds ---------------------------------- *)
MaxRecords == 2
MaxTopN == 2

Products == {"Laptop", "Mouse"}
Quantities == {1, 2}
Dates == {20230120, 20240105, 20240120}

\* The unit price a sale of each product is recorded with.
PriceOf == [Laptop |-> 20, Mouse |-> 10]

\* Python's str order on the product names of the model (groupby sorts by it).
AlphaRank == [Laptop |-> 1, Mouse |-> 2]

VARIABLES db, df, result, session, screen, tie_order, sales_db, run

vars == <<db, df, result, session, screen, tie_order, sales_db, run>>

(* ------------------------- generic helpers ---------------------------- *)
RECURSIVE SumSeq(_)
SumSeq(s) == IF s = <<>> THEN 0 ELSE Head(s) + SumSeq(Tail(s))

Min2(a, b) == IF a <= b THEN a ELSE b

\* The sequence s[p[1]], s[p[2]], ... for a permutation p of 1..Len(s).
Reorder(s, p) == [i \in 1..Len(s) |-> s[p[i]]]

Column(rows, name) == [i \in 1..Len(rows) |-> rows[i][name]]

Remove(s, i) == SubSeq(s, 1, i - 1) \o SubSeq(s, i + 1, Len(s))

\* The values of s in ascending order.
RECURSIVE SortAsc(_)
SortAsc(s) ==
    IF s = <<>> THEN <<>>
    ELSE LET i == CHOOSE i \in 1..Len(s) : \A j \in 1..Len(s) : s[i] <= s[j]
         IN  <<s[i]>> \o SortAsc(Remove(s, i))

(* --------------------------- the database ----------------------------- *)
\* A row of the sales table without its rowid.
SaleRows ==
    {[product |-> pr, quantity |-> q, price |-> PriceOf[pr], sale_date |-> d] :
        pr \in Products, q \in Quantities, d \in Dates}

SalesTables == UNION {[1..n -> SaleRows] : n \in 0..MaxRecords}

\* SELECT id, product, quantity, price, sale_date FROM sales: the id is the
\* rowid, the position of the row in the table.
SelectRow(table, i) ==
    [id |-> i, product |-> table[i].product, quantity |-> table[i].quantity,
     price |-> table[i].price, sale_date |-> table[i].sale_date]

\* pd.to_datetime on the ISO text: the calendar fields of the date.
ToDatetime(text) ==
    [year |-> text \div 10000, month |-> (text \div 100) % 100,
     day |-> text % 100]

\* The order of two timestamps (and of their .dt.date) is that of this number.
DateOrdinal(ts) == ts.year * 10000 + ts.month * 100 + ts.day

\* ORDER BY sale_date: every order of the rows that is non-decreasing in
\* sale_date; SQL leaves the order of rows with equal sale_date open.
QueryOrders(table) ==
    {p \in Permutations(1..Len(table)) :
        \A i, j \in 1..Len(table) :
            i < j => table[p[i]].sale_date <= table[p[j]].sale_date}

(* --------------------------- the DataFrame ---------------------------- *)
\* self.df = None
NoneDF == [isNone |-> TRUE, rows |-> <<>>, cols |-> {},
           revenue |-> <<>>, year_month |-> <<>>]

\* The frame load_data builds from the query result in the order p.
LoadedDF(table, p) ==
    [isNone |-> FALSE,
     rows |-> [i \in 1..Len(table) |->
                 [SelectRow(table, p[i]) EXCEPT !.sale_date = ToDatetime(@)]],
     cols |-> {}, revenue |-> <<>>, year_month |-> <<>>]

\* What the last call on the analyzer gave back: status "ok" with the value
\* returned, or "raised" when an exception left the call.
NoResult == [op |-> "none", status |-> "none", top_n |-> 0, total |-> 0,
             stats |-> <<>>, products |-> <<>>, monthly |-> <<>>,
             printed |-> <<>>]

\* What the last presentation run showed: the path ("cli" or "dashboard"),
\* how it ended, the number of records it had to present, and the key
\* indicators when it displayed them.
NoScreen == [path |-> "none", outcome |-> "none", rows |-> 0, kpi |-> <<>>]

\* No run of main() is under way: pc is the statement the run is at, and
\* found is what the sales table held when a run last reached
\* analyzer.load_data().
NoRun == [pc |-> "idle", found |-> "none"]

(* ------------------------------ Init ---------------------------------- *)
Init ==
    /\ db \in SalesTables
    /\ df = NoneDF
    /\ result = NoResult
    /\ session = <<>>
    /\ screen = NoScreen
    /\ tie_order = "unseen"
    /\ sales_db = "schema"
    /\ run = NoRun

(* ---------------------------- load_data ------------------------------- *)
\* A guard that reads the table again on every call.
Reloaded(frame, table) == {LoadedDF(table, p) : p \in QueryOrders(table)}

\* The frames an implicit load (if self.df is None: self.load_data()) can
\* leave in self.df; a frame already loaded is kept.
Ensured(frame, table) ==
    IF frame.isNone THEN {LoadedDF(table, p) : p \in QueryOrders(table)}
    ELSE {frame}

LoadData ==
    /\ \E p \in QueryOrders(db) : df' = LoadedDF(db, p)
    /\ result' = [NoResult EXCEPT !.op = "load_data", !.status = "ok"]
    /\ tie_order' = "unseen"
    /\ UNCHANGED <<db, session, screen, sales_db, run>>

(* ----------------------- calculate_total_revenue ---------------------- *)
\* np.array(df['quantity']) * np.array(df['price'])
RevenueArray(rows) == [i \in 1..Len(rows) |-> rows[i].quantity * rows[i].price]

NpSum(values) == SumSeq(values)

CalculateTotalRevenue ==
    /\ \E f \in Ensured(df, db) :
        /\ df' = f
        /\ result' = [NoResult EXCEPT !.op = "calculate_total_revenue",
                                      !.status = "ok",
                                      !.total = NpSum(RevenueArray(f.rows))]
    /\ UNCHANGED <<db, session, screen, tie_order, sales_db, run>>

(* ------------------------------ NumPy --------------------------------- *)
\* np.mean: the sum over the number of values; 0/0 (NaN) for no values.
NpMean(values) == [num |-> SumSeq(values), den |-> Len(values)]

\* np.median: the middle value of the sorted values, or the mean of the two
\* middle values; NaN for no values.
NpMedian(values) ==
    LET s == SortAsc(values)
        n == Len(values)
    IN  IF n = 0 THEN [num |-> 0, den |-> 0]
        ELSE IF n % 2 = 1 THEN [num |-> s[(n + 1) \div 2], den |-> 1]
        ELSE [num |-> s[n \div 2] + s[n \div 2 + 1], den |-> 2]

\* The square of np.std with the given ddof: the squared deviations from
\* the mean t/n, summed and divided by n - ddof:
\*   sum((x - t/n)^2) / (n - ddof) = sum((n*x - t)^2) / (n*n*(n - ddof)).
StdDdof(values, ddof) ==
    LET n == Len(values)
        t == SumSeq(values)
    IN  [num |-> SumSeq([i \in 1..n |-> (n * values[i] - t) * (n * values[i] - t)]),
         den |-> n * n * (n - ddof)]

\* pandas' Series.std() (ddof=1), the estimator np.std is not.
SampleStd(values) == StdDdof(values, 1)

\* The estimator with Bessel's correction, divisor N - 1.
BesselStd(values) == StdDdof(values, 1)

\* np.std(values): ddof defaults to 0.
NpStd(values) == StdDdof(values, 0)

\* np.min and np.max raise ValueError on a zero-size array.
ZeroSizeReduction(values) == Len(values) = 0

\* The first value taken for the least.
FirstValue(values) == values[1]

NpMin(values) ==
    CHOOSE m \in {values[i] : i \in 1..Len(values)} :
        \A i \in 1..Len(values) : m <= values[i]

NpMax(values) ==
    CHOOSE m \in {values[i] : i \in 1..Len(values)} :
        \A i \in 1..Len(values) : m >= values[i]

(* ------------------------- derived columns ---------------------------- *)
\* The revenue column without the quantity.
RevenueFromPrice(frame) ==
    [frame EXCEPT !.cols = @ \cup {"revenue"},
                  !.revenue = [i \in 1..Len(frame.rows) |-> frame.rows[i].price]]

\* The revenue added to the column an earlier call left.
RevenueAddedUp(frame) ==
    [frame EXCEPT !.cols = @ \cup {"revenue"},
                  !.revenue = [i \in 1..Len(frame.rows) |->
                                 (IF "revenue" \in frame.cols THEN frame.revenue[i] ELSE 0)
                                    + frame.rows[i].quantity * frame.rows[i].price]]

\* self.df['revenue'] = self.df['quantity'] * self.df['price']
WithRevenue(frame) ==
    [frame EXCEPT !.cols = @ \cup {"revenue"},
                  !.revenue = [i \in 1..Len(frame.rows) |->
                                 frame.rows[i].quantity * frame.rows[i].price]]

\* The month of the year, the year dropped.
MonthOfYear(ts) == ts.month - 1

\* Timestamp.to_period('M'): the month's ordinal, months since 1970-01.
ToPeriodM(ts) == (ts.year - 1970) * 12 + (ts.month - 1)

\* The month written over sale_date itself: the day of the sale is lost.
SaleDateToMonth(frame) ==
    [frame EXCEPT !.cols = @ \cup {"year_month"},
                  !.year_month = [i \in 1..Len(frame.rows) |->
                                    ToPeriodM(frame.rows[i].sale_date)],
                  !.rows = [i \in 1..Len(frame.rows) |->
                              [frame.rows[i] EXCEPT !.sale_date.day = 1]]]

\* self.df['year_month'] = self.df['sale_date'].dt.to_period('M')
WithYearMonth(frame) ==
    [frame EXCEPT !.cols = @ \cup {"year_month"},
                  !.year_month = [i \in 1..Len(frame.rows) |->
                                    ToPeriodM(frame.rows[i].sale_date)]]

(* ------------------------------ groupby ------------------------------- *)
\* The distinct keys in descending order of rank.
RECURSIVE DescendingKeys(_, _)
DescendingKeys(keys, rank) ==
    IF keys = {} THEN <<>>
    ELSE LET k == CHOOSE x \in keys : \A y \in keys : rank[x] >= rank[y]
         IN  <<k>> \o DescendingKeys(keys \ {k}, rank)

\* The group keys of a groupby (sort=True by default): the distinct keys in
\* ascending order of rank.
RECURSIVE SortedKeys(_, _)
SortedKeys(keys, rank) ==
    IF keys = {} THEN <<>>
    ELSE LET k == CHOOSE x \in keys : \A y \in keys : rank[x] <= rank[y]
         IN  <<k>> \o SortedKeys(keys \ {k}, rank)

\* The first row of a group alone.
FirstRowOfGroup(keycol, k) ==
    <<CHOOSE i \in 1..Len(keycol) :
        keycol[i] = k /\ \A j \in 1..(i - 1) : keycol[j] # k>>

\* The positions of the rows of one group, in frame order.
GroupRows(keycol, k) ==
    SelectSeq([i \in 1..Len(keycol) |-> i], LAMBDA i : keycol[i] = k)

Take(col, ix) == [j \in 1..Len(ix) |-> col[ix[j]]]

\* groupby('product').agg(revenue sum, quantity sum, id count, price mean)
ProductStats(frame) ==
    LET keycol == Column(frame.rows, "product")
        keys == SortedKeys({keycol[i] : i \in 1..Len(keycol)}, AlphaRank)
    IN  [g \in 1..Len(keys) |->
            LET ix == GroupRows(keycol, keys[g])
            IN  [key |-> keys[g],
                 revenue |-> SumSeq(Take(frame.revenue, ix)),
                 quantity |-> SumSeq(Take(Column(frame.rows, "quantity"), ix)),
                 num_sales |-> Len(Take(Column(frame.rows, "id"), ix)),
                 avg_price |-> NpMean(Take(Column(frame.rows, "price"), ix))]]

\* A table that shows one month of nothing when there is no sale at all.
NoMonthAsZeroRow(frame) ==
    IF Len(frame.rows) = 0
    THEN <<[key |-> 0, revenue |-> 0, quantity |-> 0, num_sales |-> 0]>>
    ELSE LET keycol == frame.year_month
             keyset == {keycol[i] : i \in 1..Len(keycol)}
             keys == SortedKeys(keyset, [k \in keyset |-> k])
         IN  [g \in 1..Len(keys) |->
                 [key |-> keys[g],
                  revenue |-> SumSeq(Take(frame.revenue, GroupRows(keycol, keys[g]))),
                  quantity |-> SumSeq(Take(Column(frame.rows, "quantity"),
                                           GroupRows(keycol, keys[g]))),
                  num_sales |-> Len(GroupRows(keycol, keys[g]))]]

\* groupby('year_month').agg(revenue sum, quantity sum, id count)
MonthlySales(frame) ==
    LET keycol == frame.year_month
        keyset == {keycol[i] : i \in 1..Len(keycol)}
        keys == SortedKeys(keyset, [k \in keyset |-> k])
    IN  [g \in 1..Len(keys) |->
            LET ix == GroupRows(keycol, keys[g])
            IN  [key |-> keys[g],
                 revenue |-> SumSeq(Take(frame.revenue, ix)),
                 quantity |-> SumSeq(Take(Column(frame.rows, "quantity"), ix)),
                 num_sales |-> Len(Take(Column(frame.rows, "id"), ix))]]

(* ---------------------- calculate_monthly_trends ---------------------- *)
\* The frame the call leaves in self.df, given the frame it starts from.
MonthlyFrame(frame) == WithYearMonth(WithRevenue(frame))

\* Each month given the mean and the deviation of its own revenue.
PerMonthAverages(frame) ==
    LET monthly_sales == MonthlySales(MonthlyFrame(frame))
    IN  [g \in 1..Len(monthly_sales) |->
            [key |-> monthly_sales[g].key,
             revenue |-> monthly_sales[g].revenue,
             quantity |-> monthly_sales[g].quantity,
             num_sales |-> monthly_sales[g].num_sales,
             avg_revenue |-> NpMean(<<monthly_sales[g].revenue>>),
             std_revenue |-> NpStd(<<monthly_sales[g].revenue>>)]]

\* monthly_sales with avg_revenue and std_revenue set on every row.
MonthlyTrends(frame) ==
    LET monthly_sales == MonthlySales(MonthlyFrame(frame))
        monthly_revenue == Column(monthly_sales, "revenue")
    IN  [g \in 1..Len(monthly_sales) |->
            [key |-> monthly_sales[g].key,
             revenue |-> monthly_sales[g].revenue,
             quantity |-> monthly_sales[g].quantity,
             num_sales |-> monthly_sales[g].num_sales,
             avg_revenue |-> NpMean(monthly_revenue),
             std_revenue |-> NpStd(monthly_revenue)]]

CalculateMonthlyTrends ==
    /\ \E f \in Ensured(df, db) :
        /\ df' = MonthlyFrame(f)
        /\ result' = [NoResult EXCEPT !.op = "calculate_monthly_trends",
                                      !.status = "ok",
                                      !.monthly = MonthlyTrends(f)]
    /\ UNCHANGED <<db, session, screen, tie_order, sales_db, run>>

(* -------------------- find_best_selling_products ---------------------- *)
\* The orders of an ascending sort.
AscendingOrders(rows) ==
    {p \in Permutations(1..Len(rows)) :
        \A i, j \in 1..Len(rows) :
            i < j => rows[p[i]].revenue <= rows[p[j]].revenue}

\* What a sort can do with rows of equal revenue: keep them in the order
\* they came in, or hand them back the other way round.
TieRules == {"kept", "reversed"}

\* The order p leaves the rows of equal revenue as the rule says.
FollowsRule(rows, p, rule) ==
    \A i, j \in 1..Len(rows) :
        (i < j /\ rows[p[i]].revenue = rows[p[j]].revenue) =>
            IF rule = "kept" THEN p[i] < p[j] ELSE p[i] > p[j]

\* sort_values('revenue', ascending=False) with the default kind 'quicksort',
\* which is not stable: every order of the rows that is non-increasing in
\* revenue, rows of equal revenue in an order the library leaves open.  The
\* sort is one algorithm, though: what it was seen to do with the ties of
\* this frame (tie_order) it does again.
SortOrders(rows) ==
    {p \in Permutations(1..Len(rows)) :
        /\ \A i, j \in 1..Len(rows) :
              i < j => rows[p[i]].revenue >= rows[p[j]].revenue
        /\ \E rule \in (IF tie_order = "unseen" THEN TieRules ELSE {tie_order}) :
              FollowsRule(rows, p, rule)}

\* A head that is one row too long.
HeadOneMore(rows, n) == SubSeq(rows, 1, Min2(n + 1, Len(rows)))

\* DataFrame.head(n) for n >= 0.
HeadRows(rows, n) == SubSeq(rows, 1, Min2(n, Len(rows)))

\* The rankings find_best_selling_products(top_n) can return.
BestSelling(frame, top_n) ==
    LET product_stats == ProductStats(WithRevenue(frame))
    IN  {HeadRows(Reorder(product_stats, p), top_n) : p \in SortOrders(product_stats)}

\* What is known of the sort's way with ties once the ranking best has come
\* out of it: nothing new when no two groups of the frame have equal
\* revenue, else the rule that gives best.
TieOrderSeen(frame, best) ==
    LET product_stats == ProductStats(WithRevenue(frame))
        n == Len(product_stats)
    IN  IF \A i, j \in 1..n : i # j => product_stats[i].revenue # product_stats[j].revenue
        THEN tie_order
        ELSE CHOOSE rule \in TieRules :
                \E p \in Permutations(1..n) :
                    /\ FollowsRule(product_stats, p, rule)
                    /\ best = SubSeq(Reorder(product_stats, p), 1, Len(best))

FindBestSellingProducts ==
    /\ \E f \in Ensured(df, db), top_n \in 1..MaxTopN :
        /\ df' = WithRevenue(f)
        /\ \E best \in BestSelling(f, top_n) :
            /\ result' = [NoResult EXCEPT !.op = "find_best_selling_products",
                                          !.status = "ok",
                                          !.top_n = top_n,
                                          !.products = best]
            /\ tie_order' = TieOrderSeen(f, best)
    /\ UNCHANGED <<db, session, screen, sales_db, run>>

(* ------------------------ calculate_statistics ------------------------ *)
\* The stats dict; its entries are evaluated in this order.
Statistics(frame) ==
    LET revenue == RevenueArray(frame.rows)
    IN  [total_revenue |-> NpSum(revenue),
         average_sale_value |-> NpMean(revenue),
         median_sale_value |-> NpMedian(revenue),
         std_sale_value |-> NpStd(revenue),
         min_sale_value |-> NpMin(revenue),
         max_sale_value |-> NpMax(revenue),
         total_items_sold |-> NpSum(Column(frame.rows, "quantity")),
         total_transactions |-> Len(frame.rows),
         average_quantity_per_sale |-> NpMean(Column(frame.rows, "quantity")),
         average_price |-> NpMean(Column(frame.rows, "price"))]

\* A guard that hands back zeros for no records instead of failing.
ZeroFilledStatistics(frame) ==
    IF Len(frame.rows) = 0
    THEN [status |-> "ok",
          stats |-> <<[total_revenue |-> 0,
                       average_sale_value |-> [num |-> 0, den |-> 1],
                       median_sale_value |-> [num |-> 0, den |-> 1],
                       std_sale_value |-> [num |-> 0, den |-> 1],
                       min_sale_value |-> 0, max_sale_value |-> 0,
                       total_items_sold |-> 0, total_transactions |-> 0,
                       average_quantity_per_sale |-> [num |-> 0, den |-> 1],
                       average_price |-> [num |-> 0, den |-> 1]]>>]
    ELSE [status |-> "ok", stats |-> <<Statistics(frame)>>]

\* The outcome of building the dict: np.min raises on no records, and the
\* exception leaves calculate_statistics; otherwise the dict is returned.
StatisticsOutcome(frame) ==
    IF ZeroSizeReduction(RevenueArray(frame.rows))
    THEN [status |-> "raised", stats |-> <<>>]
    ELSE [status |-> "ok", stats |-> <<Statistics(frame)>>]

CalculateStatistics ==
    /\ \E f \in Ensured(df, db) :
        /\ df' = f
        /\ result' = [NoResult EXCEPT !.op = "calculate_statistics",
                                      !.status = StatisticsOutcome(f).status,
                                      !.stats = StatisticsOutcome(f).stats]
    /\ UNCHANGED <<db, session, screen, tie_order, sales_db, run>>

(* ----------------------- generate_summary_report ---------------------- *)
\* best_products = self.find_best_selling_products(10)
ReportTopN == 10

\* The monthly revenue statistics the report prints.
MonthlyPrinted(monthly) ==
    LET monthly_revenue == Column(monthly, "revenue")
    IN  [average |-> NpMean(monthly_revenue),
         median |-> NpMedian(monthly_revenue),
         std |-> NpStd(monthly_revenue),
         best |-> NpMax(monthly_revenue),
         worst |-> NpMin(monthly_revenue)]

\* The reports generate_summary_report can end with, starting from the
\* loaded frame f: calculate_statistics first, then
\* find_best_selling_products(10), then calculate_monthly_trends on the
\* frame the calls before left, then the monthly statistics.  An exception
\* of calculate_statistics, or of np.max over no monthly revenue, ends the
\* report with nothing returned; self.df keeps what the calls made of it.
SummaryReports(f) ==
    LET monthly == MonthlyTrends(WithRevenue(f))
    IN  IF StatisticsOutcome(f).status = "raised"
        THEN {[frame |-> f,
               report |-> [NoResult EXCEPT !.op = "generate_summary_report",
                                           !.status = "raised"]]}
        ELSE IF ZeroSizeReduction(Column(monthly, "revenue"))
        THEN {[frame |-> MonthlyFrame(WithRevenue(f)),
               report |-> [NoResult EXCEPT !.op = "generate_summary_report",
                                           !.status = "raised"]]}
        ELSE {[frame |-> MonthlyFrame(WithRevenue(f)),
               report |-> [NoResult EXCEPT
                             !.op = "generate_summary_report",
                             !.status = "ok",
                             !.top_n = ReportTopN,
                             !.stats = StatisticsOutcome(f).stats,
                             !.products = best,
                             !.monthly = monthly,
                             !.printed = <<MonthlyPrinted(monthly)>>]] :
               best \in BestSelling(f, ReportTopN)}

GenerateSummaryReport ==
    /\ \E f \in Ensured(df, db) :
        \E r \in SummaryReports(f) :
            /\ df' = r.frame
            /\ result' = r.report
            /\ tie_order' = IF r.report.status = "ok"
                            THEN TieOrderSeen(f, r.report.products)
                            ELSE tie_order
    /\ UNCHANGED <<db, session, screen, sales_db, run>>

(* ------------------------------ main.py ------------------------------- *)
\* main() with sales.db present: a new analyzer, load_data, then
\* generate_summary_report; its exception is not caught and ends the run
\* with a traceback, otherwise the charts are drawn and the run completes.
MainOutcome(f) ==
    IF \A r \in SummaryReports(f) : r.report.status = "raised"
    THEN "crash" ELSE "complete"

Main ==
    /\ \E p \in QueryOrders(db) :
        LET f == LoadedDF(db, p)
        IN  screen' = [path |-> "cli", outcome |-> MainOutcome(f),
                       rows |-> Len(f.rows), kpi |-> <<>>]
    /\ UNCHANGED <<db, df, result, session, tie_order, sales_db, run>>

(* ---------------------------- dashboard.py ---------------------------- *)
\* The values st.date_input can hand back for the frame: a (start, end)
\* pair inside [min_date, max_date], or the start alone while the range is
\* being picked.
DateRanges(frame) ==
    LET days == {DateOrdinal(ToDatetime(d)) : d \in Dates}
        sale_days == {DateOrdinal(frame.rows[i].sale_date) : i \in 1..Len(frame.rows)}
        min_date == CHOOSE d \in sale_days : \A e \in sale_days : d <= e
        max_date == CHOOSE d \in sale_days : \A e \in sale_days : d >= e
        inside == {d \in days : min_date <= d /\ d <= max_date}
    IN  {r \in {<<lo, hi>> : lo \in inside, hi \in inside} : r[1] <= r[2]}
            \cup {<<lo>> : lo \in inside}

\* filtered_df after the date range filter.
DateFiltered(frame, date_range) ==
    IF Len(frame.rows) > 0 /\ Len(date_range) = 2
    THEN SelectSeq(frame.rows,
                   LAMBDA r : /\ DateOrdinal(r.sale_date) >= date_range[1]
                              /\ DateOrdinal(r.sale_date) <= date_range[2])
    ELSE frame.rows

\* The options of the product multiselect: the products of filtered_df.
AllProducts(rows) == {rows[i].product : i \in 1..Len(rows)}

\* filtered_df after the product filter; an empty selection filters nothing.
ProductFiltered(rows, selected_products) ==
    IF Len(rows) > 0 /\ selected_products # {}
    THEN SelectSeq(rows, LAMBDA r : r.product \in selected_products)
    ELSE rows

\* The key performance indicators of the metrics row.
KeyIndicators(rows) ==
    LET revenue == RevenueArray(rows)
    IN  [total_revenue |-> SumSeq(revenue),
         total_sales |-> Len(rows),
         total_items |-> SumSeq(Column(rows, "quantity")),
         avg_sale_value |-> NpMean(revenue),
         std |-> SampleStd(revenue),
         max |-> NpMax(revenue),
         min |-> NpMin(revenue)]

\* The page for filtered_df: the metrics, or the "No data available" error.
Rendered(rows) ==
    IF Len(rows) > 0
    THEN [path |-> "dashboard", outcome |-> "metrics", rows |-> Len(rows),
          kpi |-> <<KeyIndicators(rows)>>]
    ELSE [path |-> "dashboard", outcome |-> "no_data", rows |-> 0, kpi |-> <<>>]

\* The pages one run of the script can show for the analyzer's frame, over
\* the widget values the user can have set.
Pages(frame) ==
    UNION {{Rendered(ProductFiltered(DateFiltered(frame, date_range), selected_products)) :
                selected_products \in SUBSET AllProducts(DateFiltered(frame, date_range))} :
            date_range \in (IF Len(frame.rows) > 0 THEN DateRanges(frame) ELSE {<<>>})}

\* One run of the script: the session's analyzer is created and loaded on
\* the first run and reused afterwards.
DashboardRun ==
    /\ \E f \in (IF session = <<>>
                 THEN {LoadedDF(db, p) : p \in QueryOrders(db)}
                 ELSE {session[1]}) :
        /\ session' = <<f>>
        /\ \E page \in Pages(f) : screen' = page
    /\ UNCHANGED <<db, df, result, tie_order, sales_db, run>>

\* The Refresh Data button: a new analyzer, load_data, and st.rerun().
RefreshData ==
    /\ session # <<>>
    /\ \E p \in QueryOrders(db) :
        /\ session' = <<LoadedDF(db, p)>>
        /\ \E page \in Pages(LoadedDF(db, p)) : screen' = page
    /\ UNCHANGED <<db, df, result, tie_order, sales_db, run>>

(* ------------------- new analyzers, a changing table ------------------ *)
\* analyzer = SalesAnalyzer(): a new object with self.df = None takes the
\* place of the one in use.
NewAnalyzer ==
    /\ df' = NoneDF
    /\ result' = NoResult
    /\ tie_order' = "unseen"
    /\ UNCHANGED <<db, session, screen, sales_db, run>>

\* SalesVisualizer(analyzer): the analyzer is loaded if it was not, and
\* nothing is computed yet.
NewVisualizer ==
    /\ df' \in Ensured(df, db)
    /\ UNCHANGED <<db, result, session, screen, tie_order, sales_db, run>>

\* INSERT INTO sales ... and commit, while analyzers are in use: the table
\* gets one more row.
InsertSale ==
    /\ sales_db = "schema"
    /\ Len(db) < MaxRecords
    /\ \E row \in SaleRows : db' = Append(db, row)
    /\ UNCHANGED <<df, result, session, screen, tie_order, sales_db, run>>

Next ==
    \/ LoadData
    \/ CalculateTotalRevenue
    \/ CalculateMonthlyTrends
    \/ FindBestSellingProducts
    \/ CalculateStatistics
    \/ GenerateSummaryReport

Spec == Init /\ [][Next]_vars

PresentationNext ==
    \/ Main
    \/ DashboardRun
    \/ RefreshData

PresentationSpec == Init /\ [][PresentationNext]_vars

(* ------------- main.py, run after run, from a clean start ------------- *)
\* sales_db is the file sales.db: "absent", "created" (the file sqlite3
\* made on connect, no table in it yet) or "schema" (the sales table
\* exists and db is its content).
BootstrapInit ==
    /\ sales_db = "absent"
    /\ db = <<>>
    /\ df = NoneDF
    /\ result = NoResult
    /\ session = <<>>
    /\ screen = NoScreen
    /\ tie_order = "unseen"
    /\ run = NoRun

\* db_exists = os.path.exists('sales.db'): init_db() when it is absent, else
\* straight on to the analysis.
MainStart ==
    /\ run.pc = "idle"
    /\ run' = [pc |-> IF sales_db = "absent" THEN "create_database" ELSE "load_data",
               found |-> "none"]
    /\ UNCHANGED <<db, df, result, session, screen, tie_order, sales_db>>

\* create_database(): sqlite3.connect makes the file; then schema.sql is
\* opened and executed, which makes the sales table.  When schema.sql cannot
\* be opened the exception ends the run of main and leaves the file behind.
CreateDatabase ==
    /\ run.pc = "create_database"
    /\ \/ /\ sales_db' = "created"
          /\ run' = [run EXCEPT !.pc = "idle"]
          /\ screen' = [path |-> "cli", outcome |-> "crash", rows |-> 0, kpi |-> <<>>]
          /\ UNCHANGED db
       \/ /\ sales_db' = "schema"
          /\ db' = <<>>
          /\ run' = [run EXCEPT !.pc = "populate_database"]
          /\ UNCHANGED screen
    /\ UNCHANGED <<df, result, session, tie_order>>

\* The tables generate_sample_data and populate_database can leave: as many
\* rows as the model holds, products, quantities and dates drawn at random.
SampleTables == {t \in SalesTables : Len(t) = MaxRecords}

\* populate_database(): executemany, then commit.  A run that ends before
\* the commit leaves the table as it was, without a row.
PopulateDatabase ==
    /\ run.pc = "populate_database"
    /\ \/ /\ db' \in SampleTables
          /\ run' = [run EXCEPT !.pc = "load_data"]
          /\ UNCHANGED screen
       \/ /\ run' = [run EXCEPT !.pc = "idle"]
          /\ screen' = [path |-> "cli", outcome |-> "crash", rows |-> 0, kpi |-> <<>>]
          /\ UNCHANGED db
    /\ UNCHANGED <<df, result, session, tie_order, sales_db>>

\* What analyzer.load_data() finds in sales.db.
FoundInDatabase ==
    IF sales_db # "schema" THEN "no_table"
    ELSE IF Len(db) = 0 THEN "empty" ELSE "populated"

\* The rest of main(): analyzer.load_data(), whose query fails when there is
\* no sales table, then the report and the charts.
MainAnalysis ==
    /\ run.pc = "load_data"
    /\ run' = [pc |-> "idle", found |-> FoundInDatabase]
    /\ IF sales_db # "schema"
       THEN screen' = [path |-> "cli", outcome |-> "crash", rows |-> 0, kpi |-> <<>>]
       ELSE \E p \in QueryOrders(db) :
               LET f == LoadedDF(db, p)
               IN  screen' = [path |-> "cli", outcome |-> MainOutcome(f),
                              rows |-> Len(f.rows), kpi |-> <<>>]
    /\ UNCHANGED <<db, df, result, session, tie_order, sales_db>>

BootstrapNext ==
    \/ MainStart
    \/ CreateDatabase
    \/ PopulateDatabase
    \/ MainAnalysis

BootstrapSpec == BootstrapInit /\ [][BootstrapNext]_vars

\* The analyzer and the dashboard session over a table that grows.
SnapshotNext ==
    \/ Next
    \/ NewAnalyzer
    \/ NewVisualizer
    \/ InsertSale
    \/ DashboardRun
    \/ RefreshData

SnapshotSpec == Init /\ [][SnapshotNext]_vars

(* ======================= properties of the engine ===================== *)
\* The records the last result was computed from.
Records == df.rows

Called(ops) == result.op \in ops /\ result.status = "ok"

ProductsOf(rows) == {rows[i].product : i \in 1..Len(rows)}

\* Sum of quantity * price over the records that satisfy keep.
RevenueWhere(rows, keep(_)) ==
    SumSeq([i \in 1..Len(rows) |->
               IF keep(rows[i]) THEN rows[i].quantity * rows[i].price ELSE 0])

QuantityWhere(rows, keep(_)) ==
    SumSeq([i \in 1..Len(rows) |-> IF keep(rows[i]) THEN rows[i].quantity ELSE 0])

CountWhere(rows, keep(_)) == Cardinality({i \in 1..Len(rows) : keep(rows[i])})

\* The 'YYYY-MM' of a record's sale_date, as the number YYYYMM, and the one
\* a monthly row's key stands for.
YearMonthOf(r) == r.sale_date.year * 100 + r.sale_date.month
YearMonthOfKey(k) == ((k \div 12) + 1970) * 100 + ((k % 12) + 1)

\* The distinct values of a sequence in the order of their first occurrence.
RECURSIVE FirstSeen(_)
FirstSeen(s) ==
    IF s = <<>> THEN <<>>
    ELSE <<Head(s)>> \o FirstSeen(SelectSeq(Tail(s), LAMBDA x : x # Head(s)))

FirstIndex(s, v) == CHOOSE i \in 1..Len(s) : s[i] = v /\ \A j \in 1..(i - 1) : s[j] # v

\* C1: the revenue of all product groups, the revenue of all month groups
\* and the per-record sum of quantity * price (calculate_total_revenue,
\* stats['total_revenue']) are equal: grouping loses and double-counts
\* nothing.
C1_RevenueConserved ==
    LET total == RevenueWhere(Records, LAMBDA r : TRUE)
        allProducts == result.top_n >= Cardinality(ProductsOf(Records))
    IN  /\ Called({"calculate_total_revenue"}) => result.total = total
        /\ Called({"calculate_statistics", "generate_summary_report"})
              => result.stats[1].total_revenue = total
        /\ Called({"calculate_monthly_trends", "generate_summary_report"})
              => SumSeq(Column(result.monthly, "revenue")) = total
        /\ (Called({"find_best_selling_products", "generate_summary_report"})
              /\ allProducts)
              => SumSeq(Column(result.products, "revenue")) = total

C1_Witness ==
    /\ Called({"generate_summary_report"})
    /\ Len(result.products) = 2
    /\ Len(result.monthly) = 2
    /\ result.stats[1].total_revenue > 0

C3_NoDataIsExplicit ==
    (screen.path # "none" /\ screen.rows = 0) => screen.outcome = "no_data"

\* C4: find_best_selling_products(top_n) returns rows sorted non-increasing
\* by revenue, exactly min(top_n, number of distinct products) of them, each
\* a different product of the records.
C4_TopNSortedAndSized ==
    Called({"find_best_selling_products", "generate_summary_report"})
    => LET rows == result.products
       IN  /\ \A i, j \in 1..Len(rows) :
                 i < j => rows[i].revenue >= rows[j].revenue
           /\ Len(rows) = Min2(result.top_n, Cardinality(ProductsOf(Records)))
           /\ \A i \in 1..Len(rows) : rows[i].key \in ProductsOf(Records)
           /\ \A i, j \in 1..Len(rows) : i # j => rows[i].key # rows[j].key

C4_Witness ==
    /\ Called({"find_best_selling_products"})
    /\ Cardinality(ProductsOf(Records)) = 2
    /\ result.top_n = 1
    /\ Len(result.products) = 1
    /\ \E i \in 1..Len(Records) :
          Records[i].product # result.products[1].key

(* ------------------------------- ties --------------------------------- *)
\* The total revenue of a product over the records.
ProductRevenue(k) == RevenueWhere(Records, LAMBDA r : r.product = k)

\* C5 as stated: products of equal total revenue are ranked in the order of
\* their first occurrence in the loaded records, and of products tied at
\* the cut the ones that occur first survive the truncation.
C5_TiesInFirstSeenOrder ==
    Called({"find_best_selling_products", "generate_summary_report"})
    => LET rows == result.products
           seen == Column(Records, "product")
       IN  /\ \A i, j \in 1..Len(rows) :
                 (i < j /\ rows[i].revenue = rows[j].revenue)
                 => FirstIndex(seen, rows[i].key) < FirstIndex(seen, rows[j].key)
           /\ \A i \in 1..Len(rows) :
                 \A k \in ProductsOf(Records) \ {rows[m].key : m \in 1..Len(rows)} :
                    ProductRevenue(k) = rows[i].revenue
                    => FirstIndex(seen, rows[i].key) < FirstIndex(seen, k)

\* C5, amended: the ranking is fixed by the records up to the order of tied
\* products: the revenues returned are the top_n largest product revenues
\* in non-increasing order, every product whose revenue is above the last
\* returned one is returned, and a product left out has at most the revenue
\* of the last returned one.
C5_RankingFixedUpToTies ==
    Called({"find_best_selling_products", "generate_summary_report"})
    => LET rows == result.products
           returned == {rows[m].key : m \in 1..Len(rows)}
           all == ProductsOf(Records)
       IN  /\ \A i \in 1..Len(rows) : rows[i].revenue = ProductRevenue(rows[i].key)
           /\ \A i \in 1..Len(rows) :
                 Cardinality({k \in all : ProductRevenue(k) > rows[i].revenue}) < i
           /\ \A k \in all \ returned :
                 /\ Len(rows) = result.top_n
                 /\ \A i \in 1..Len(rows) : ProductRevenue(k) <= rows[i].revenue

\* Two tied products ranked against the order of their first occurrence.
C5_Witness ==
    /\ Called({"find_best_selling_products"})
    /\ Len(result.products) = 2
    /\ result.products[1].revenue = result.products[2].revenue
    /\ FirstIndex(Column(Records, "product"), result.products[1].key)
          > FirstIndex(Column(Records, "product"), result.products[2].key)

(* ------------------------------ groups -------------------------------- *)
\* C6: every product group and every month group has num_sales equal to the
\* number of records with its key, revenue equal to the sum of
\* quantity * price over them and quantity equal to the sum of their
\* quantities; no group is empty, no key has two groups, and every record's
\* key has a group in a grouping that is not truncated.
C6_GroupsMatchRecords ==
    /\ Called({"find_best_selling_products", "generate_summary_report"})
       => LET rows == result.products
          IN  /\ \A g \in 1..Len(rows) :
                    /\ rows[g].num_sales
                          = CountWhere(Records, LAMBDA r : r.product = rows[g].key)
                    /\ rows[g].revenue
                          = RevenueWhere(Records, LAMBDA r : r.product = rows[g].key)
                    /\ rows[g].quantity
                          = QuantityWhere(Records, LAMBDA r : r.product = rows[g].key)
                    /\ rows[g].num_sales >= 1
              /\ \A g, h \in 1..Len(rows) : g # h => rows[g].key # rows[h].key
              /\ result.top_n >= Cardinality(ProductsOf(Records))
                    => \A i \in 1..Len(Records) :
                          \E g \in 1..Len(rows) : rows[g].key = Records[i].product
    /\ Called({"calculate_monthly_trends", "generate_summary_report"})
       => LET rows == result.monthly
          IN  /\ \A g \in 1..Len(rows) :
                    /\ rows[g].num_sales
                          = CountWhere(Records,
                               LAMBDA r : YearMonthOf(r) = YearMonthOfKey(rows[g].key))
                    /\ rows[g].revenue
                          = RevenueWhere(Records,
                               LAMBDA r : YearMonthOf(r) = YearMonthOfKey(rows[g].key))
                    /\ rows[g].quantity
                          = QuantityWhere(Records,
                               LAMBDA r : YearMonthOf(r) = YearMonthOfKey(rows[g].key))
                    /\ rows[g].num_sales >= 1
              /\ \A g, h \in 1..Len(rows) : g # h => rows[g].key # rows[h].key
              /\ \A i \in 1..Len(Records) :
                    \E g \in 1..Len(rows) :
                       YearMonthOfKey(rows[g].key) = YearMonthOf(Records[i])

\* A group of two records.
C6_Witness ==
    /\ Called({"generate_summary_report"})
    /\ \E g \in 1..Len(result.products) : result.products[g].num_sales = 2
    /\ \E g \in 1..Len(result.monthly) : result.monthly[g].num_sales = 2
    /\ Records[1].quantity # Records[2].quantity

\* C7: the monthly breakdown has exactly one row per distinct calendar
\* year-month of sale_date in the records, none for a month without sales,
\* in strictly increasing chronological order.
C7_OneRowPerYearMonth ==
    Called({"calculate_monthly_trends", "generate_summary_report"})
    => LET rows == result.monthly
           months == {YearMonthOf(Records[i]) : i \in 1..Len(Records)}
       IN  /\ {YearMonthOfKey(rows[g].key) : g \in 1..Len(rows)} = months
           /\ Len(rows) = Cardinality(months)
           /\ \A g, h \in 1..Len(rows) :
                 g < h => YearMonthOfKey(rows[g].key) < YearMonthOfKey(rows[h].key)

\* January of two different years gives two rows.
C7_Witness ==
    /\ Called({"calculate_monthly_trends"})
    /\ Len(result.monthly) = 2
    /\ Records[1].sale_date.month = Records[2].sale_date.month
    /\ Records[1].sale_date.year # Records[2].sale_date.year

\* C8 as stated: the grouping returns its rows in the first-seen order of
\* the keys in the loaded records, the product grouping before it is
\* re-sorted by revenue included.
C8_GroupsInFirstSeenOrder ==
    /\ (Called({"find_best_selling_products", "generate_summary_report"})
          /\ "revenue" \in df.cols)
       => Column(ProductStats(df), "key") = FirstSeen(Column(Records, "product"))
    /\ Called({"calculate_monthly_trends", "generate_summary_report"})
       => [g \in 1..Len(result.monthly) |-> YearMonthOfKey(result.monthly[g].key)]
             = FirstSeen([i \in 1..Len(Records) |-> YearMonthOf(Records[i])])

\* C8, amended: the grouping returns its rows in ascending key order:
\* product names in alphabetical order whatever the order of the records,
\* months in chronological order, which is their first-seen order because
\* the records are loaded in sale_date order.
C8_GroupsInKeyOrder ==
    /\ (Called({"find_best_selling_products", "generate_summary_report"})
          /\ "revenue" \in df.cols)
       => LET keys == Column(ProductStats(df), "key")
          IN  /\ \A g, h \in 1..Len(keys) :
                    g < h => AlphaRank[keys[g]] < AlphaRank[keys[h]]
              /\ {keys[g] : g \in 1..Len(keys)} = ProductsOf(Records)
    /\ Called({"calculate_monthly_trends", "generate_summary_report"})
       => /\ \A g, h \in 1..Len(result.monthly) :
                g < h => result.monthly[g].key < result.monthly[h].key
          /\ [g \in 1..Len(result.monthly) |-> YearMonthOfKey(result.monthly[g].key)]
                = FirstSeen([i \in 1..Len(Records) |-> YearMonthOf(Records[i])])

\* Mouse is seen before Laptop, and two months are seen.
C8_Witness ==
    /\ Called({"generate_summary_report"})
    /\ "revenue" \in df.cols
    /\ Column(Records, "product") = <<"Mouse", "Laptop">>
    /\ Column(ProductStats(df), "key") = <<"Laptop", "Mouse">>
    /\ Len(result.monthly) = 2

(* ---------------------------- statistics ------------------------------ *)
\* C9: min_sale_value <= median_sale_value <= max_sale_value and
\* min_sale_value <= average_sale_value <= max_sale_value, on fractions:
\* min * den <= num <= max * den.
C9_MedianAndMeanWithinRange ==
    Called({"calculate_statistics", "generate_summary_report"})
    => LET st == result.stats[1]
       IN  /\ st.median_sale_value.den > 0
           /\ st.min_sale_value * st.median_sale_value.den <= st.median_sale_value.num
           /\ st.median_sale_value.num <= st.max_sale_value * st.median_sale_value.den
           /\ st.average_sale_value.den = st.total_transactions
           /\ st.total_transactions > 0
           /\ st.min_sale_value * st.total_transactions <= st.total_revenue
           /\ st.total_revenue <= st.max_sale_value * st.total_transactions
           /\ st.average_sale_value.num = st.total_revenue

C9_Witness ==
    /\ Called({"calculate_statistics"})
    /\ result.stats[1].min_sale_value < result.stats[1].max_sale_value
    /\ result.stats[1].total_transactions = 2
    /\ Records[1].quantity * Records[1].price > Records[2].quantity * Records[2].price

\* The fraction v is the population variance of the values: the mean of the
\* squares less the square of the mean, (n * sum(x^2) - sum(x)^2) / n^2.
IsPopulationVariance(v, values) ==
    LET n == Len(values)
        squares == SumSeq([i \in 1..n |-> values[i] * values[i]])
        t == SumSeq(values)
    IN  /\ v.den > 0
        /\ v.num * n * n = (n * squares - t * t) * v.den

\* C10: std_sale_value over the per-record revenue, std_revenue and the
\* reported monthly standard deviation over the monthly revenue sums are
\* population standard deviations (divisor N); for a single value they are 0.
C10_PopulationStd ==
    LET revenue == [i \in 1..Len(Records) |-> Records[i].quantity * Records[i].price]
        monthly_revenue == Column(result.monthly, "revenue")
    IN  /\ Called({"calculate_statistics", "generate_summary_report"})
           => /\ IsPopulationVariance(result.stats[1].std_sale_value, revenue)
              /\ Len(revenue) = 1 => result.stats[1].std_sale_value.num = 0
        /\ Called({"calculate_monthly_trends", "generate_summary_report"})
           => \A g \in 1..Len(result.monthly) :
                 /\ IsPopulationVariance(result.monthly[g].std_revenue, monthly_revenue)
                 /\ Len(monthly_revenue) = 1 => result.monthly[g].std_revenue.num = 0
        /\ Called({"generate_summary_report"})
           => /\ IsPopulationVariance(result.printed[1].std, monthly_revenue)
              /\ Len(monthly_revenue) = 1 => result.printed[1].std.num = 0

\* Two sales of different value in two months of different revenue.
C10_Witness ==
    /\ Called({"generate_summary_report"})
    /\ result.stats[1].std_sale_value.num > 0
    /\ Len(result.monthly) = 2
    /\ result.printed[1].std.num > 0

(* ================== repeated calls and the loaded records ============== *)
\* The analyzer as load_data leaves it with these records: no derived column.
FreshlyLoaded(rows) ==
    [isNone |-> FALSE, rows |-> rows, cols |-> {},
     revenue |-> <<>>, year_month |-> <<>>]

\* C11: what an analysis operation returns is what it returns on a freshly
\* loaded analyzer holding the same records, whichever operations were
\* called before it on this one; so generate_summary_report called again on
\* unchanged records returns the same statistics, the same ranking rows in
\* the same order and the same monthly rows.
C11_ResultFromRecordsAlone ==
    LET fresh == FreshlyLoaded(Records)
    IN  /\ Called({"calculate_total_revenue"})
           => result.total = NpSum(RevenueArray(Records))
        /\ result.op = "calculate_statistics"
           => /\ result.status = StatisticsOutcome(fresh).status
              /\ result.stats = StatisticsOutcome(fresh).stats
        /\ Called({"calculate_monthly_trends"})
           => result.monthly = MonthlyTrends(fresh)
        /\ Called({"find_best_selling_products"})
           => BestSelling(fresh, result.top_n) = {result.products}
        /\ result.op = "generate_summary_report"
           => {r.report : r \in SummaryReports(fresh)} = {result}

\* A ranking of two products of equal revenue, returned by an analyzer on
\* which calculate_monthly_trends or generate_summary_report had run before
\* (the frame has its year_month column).
C11_Witness ==
    /\ Called({"find_best_selling_products"})
    /\ "year_month" \in df.cols
    /\ tie_order = "reversed"
    /\ result.top_n = 2 /\ Len(result.products) = 2
    /\ result.products[1].revenue = result.products[2].revenue

\* C12 as stated: the loaded record set has the rows, fields and values it
\* had right after loading, no derived revenue or year-month stored in it.
C12_NothingStoredBack == ~df.isNone => df = FreshlyLoaded(Records)

\* C12, amended: a call on a loaded analyzer keeps the rows and the values
\* of the loaded fields and drops no column; calculate_total_revenue and
\* calculate_statistics store nothing, find_best_selling_products stores the
\* revenue column, calculate_monthly_trends and a generate_summary_report
\* that gets past its statistics store revenue and year_month; a stored
\* column holds quantity * price, or the month of sale_date, of its row.
C12_RecordsKeptColumnsAdded ==
    [][(~df.isNone /\ ~df'.isNone /\ result'.op # "load_data")
        => /\ df'.rows = df.rows
           /\ df.cols \subseteq df'.cols
           /\ result'.op \in {"calculate_total_revenue", "calculate_statistics"}
              => df' = df
           /\ result'.op = "find_best_selling_products"
              => df'.cols = df.cols \cup {"revenue"}
           /\ (\/ result'.op = "calculate_monthly_trends"
               \/ result'.op = "generate_summary_report" /\ Len(df.rows) > 0)
              => df'.cols = {"revenue", "year_month"}
           /\ (result'.op = "generate_summary_report" /\ Len(df.rows) = 0)
              => df' = df
           /\ "revenue" \in df'.cols => df'.revenue = RevenueArray(df'.rows)
           /\ "year_month" \in df'.cols
              => df'.year_month = [i \in 1..Len(df'.rows) |->
                                    ToPeriodM(df'.rows[i].sale_date)]]_vars

\* calculate_statistics returning on two records whose frame earlier calls
\* have given both derived columns.
C12_Witness ==
    /\ Called({"calculate_statistics"})
    /\ Len(Records) = 2
    /\ df.cols = {"revenue", "year_month"}
    /\ df.revenue = RevenueArray(Records)

C14_OneAverageForAllMonths ==
    Called({"calculate_monthly_trends", "generate_summary_report"})
    => LET monthly_revenue == Column(result.monthly, "revenue")
       IN  \A g \in 1..Len(result.monthly) :
              /\ result.monthly[g].avg_revenue.num = SumSeq(monthly_revenue)
              /\ result.monthly[g].avg_revenue.den = Len(result.monthly)
              /\ IsPopulationVariance(result.monthly[g].std_revenue, monthly_revenue)
              /\ \A h \in 1..Len(result.monthly) :
                    /\ result.monthly[h].avg_revenue = result.monthly[g].avg_revenue
                    /\ result.monthly[h].std_revenue = result.monthly[g].std_revenue

\* calculate_monthly_trends returning two months of different revenue.
C14_Witness ==
    /\ Called({"calculate_monthly_trends"})
    /\ Len(result.monthly) = 2
    /\ result.monthly[1].revenue # result.monthly[2].revenue
    /\ result.monthly[1].avg_revenue.den = 2

(* ======================= the loaded snapshot =========================== *)
\* The record sequences a load of the table can put into a frame.
LoadsOf(table) == {LoadedDF(table, p).rows : p \in QueryOrders(table)}

AnalysisOps ==
    {"calculate_total_revenue", "calculate_monthly_trends",
     "find_best_selling_products", "calculate_statistics",
     "generate_summary_report"}

\* C15: an analyzer reads the table without being asked only in a call that
\* finds df unset, and that call leaves df set; from then on no call but
\* load_data gives df other records, so there is no second implicit load on
\* the analyzer and its results are those of the snapshot, whatever has been
\* inserted into the table since.  A change of the table changes neither df
\* nor the dashboard's session.  The records in use change only by
\* load_data, by a new analyzer, or, in the dashboard, by Refresh Data.
C15_SnapshotKept ==
    [][/\ (~df.isNone /\ ~df'.isNone /\ result'.op # "load_data")
          => df'.rows = df.rows
       /\ (df.isNone /\ ~df'.isNone) => df'.rows \in LoadsOf(db)
       /\ (result' # result /\ result'.op \in AnalysisOps) => ~df'.isNone
       /\ (result'.op = "calculate_total_revenue" /\ result'.status = "ok")
          => result'.total = NpSum(RevenueArray(df'.rows))
       /\ db' # db => (df' = df /\ result' = result /\ session' = session)
       /\ (session # <<>> /\ session' # session)
          => (session' # <<>> /\ session'[1].rows \in LoadsOf(db))
       /\ (session = <<>> /\ session' # <<>>) => session'[1].rows \in LoadsOf(db)]_vars

\* A total computed from a snapshot that lacks a sale the table holds, on an
\* analyzer that was loaded by the call itself or before it.
C15_Witness ==
    /\ Called({"calculate_total_revenue"})
    /\ Len(db) > Len(Records)
    /\ result.total = NpSum(RevenueArray(Records))
    /\ result.total < NpSum(RevenueArray(LoadedDF(db, [i \in 1..Len(db) |-> i]).rows))
    /\ session # <<>>
    /\ Len(session[1].rows) < Len(db)

(* ===================== the dashboard's indicators ====================== *)
\* Two quotients are the same number; NaN is the same as nothing but NaN.
SameNumber(a, b) ==
    IF a.den = 0 \/ b.den = 0 THEN a.den = 0 /\ b.den = 0
    ELSE a.num * b.den = b.num * a.den

\* C16: when the dashboard's filters let every record of the session's
\* analyzer through (the date range covers them all, every product is
\* selected), the key indicators it shows are the fields of
\* calculate_statistics on the same records: total revenue, number of
\* transactions, items sold, average, standard deviation, maximum and
\* minimum of the sale value.
C16_IndicatorsAreTheStatistics ==
    (/\ screen.path = "dashboard"
     /\ screen.outcome = "metrics"
     /\ session # <<>>
     /\ screen.rows = Len(session[1].rows))
    => LET kpi == screen.kpi[1]
           stats == Statistics(session[1])
       IN  /\ kpi.total_revenue = stats.total_revenue
           /\ kpi.total_sales = stats.total_transactions
           /\ kpi.total_items = stats.total_items_sold
           /\ SameNumber(kpi.avg_sale_value, stats.average_sale_value)
           /\ SameNumber(kpi.std, stats.std_sale_value)
           /\ kpi.max = stats.max_sale_value
           /\ kpi.min = stats.min_sale_value

(* ========================= start-up of main() ========================== *)
\* C17: whenever a run of main() reaches analyzer.load_data(), also after
\* earlier runs whose initialisation failed partway, the sales table
\* exists and has been populated.
C17_AnalysisFindsPopulatedTable == run.found \in {"none", "populated"}

====
